---- MODULE Spec2Model ----
(***************************************************************************)
(* Model of src/pgen/cool_turb.cpp (Athena++ problem generator: uniform    *)
(* gas with optically-thin radiative cooling and optional turbulence       *)
(* driving).                                                               *)
(*                                                                         *)
(* Arithmetic.  The C++ type Real is modelled by exact values: a finite    *)
(* value is a formal sum of terms  c * 10^e * mu^i * kB^j * amu^l  with c  *)
(* and e rational, so that log10 and pow(10, .) are exact; the IEEE        *)
(* special values NaN, +inf and -inf are separate values with the IEEE     *)
(* rules for arithmetic and comparison.  Rounding, overflow to infinity    *)
(* and the sign of zero are not modelled.  The physical constants mu, kB   *)
(* and amu are kept as positive symbols (their exponents i, j, l).         *)
(***************************************************************************)
EXTENDS Integers, Sequences, FiniteSets, TLC

VARIABLES pc, build, mesh, u, w, call, curve, par

vars == <<pc, build, mesh, u, w, call, curve, par>>

(***************************************************************************)
(* Rational numbers n/d in lowest terms, d > 0.                            *)
(***************************************************************************)
Abs(n) == IF n < 0 THEN -n ELSE n

RECURSIVE GCD(_, _)
GCD(a, b) == IF b = 0 THEN a ELSE GCD(b, a % b)

Q(n, d) ==
  LET g == GCD(Abs(n), Abs(d))
      s == IF d < 0 THEN -1 ELSE 1
  IN  [n |-> (s * n) \div g, d |-> (s * d) \div g]

QAdd(a, b) == Q(a.n * b.d + b.n * a.d, a.d * b.d)
QNeg(a) == [n |-> -a.n, d |-> a.d]
QMul(a, b) == Q(a.n * b.n, a.d * b.d)
QDiv(a, b) == Q(a.n * b.d, a.d * b.n)
QLess(a, b) == a.n * b.d < b.n * a.d
QSign(a) == IF a.n > 0 THEN 1 ELSE IF a.n < 0 THEN -1 ELSE 0

\* log10 of a positive integer that is a power of ten (no value otherwise)
RECURSIVE Log10Int(_)
Log10Int(n) ==
  IF n = 1 THEN 0
  ELSE IF n % 10 = 0 THEN 1 + Log10Int(n \div 10)
  ELSE CHOOSE k \in {} : TRUE

\* log10 of a positive rational that is a power of ten
Log10Q(q) == IF q.d = 1 THEN Log10Int(q.n) ELSE -Log10Int(q.d)

(***************************************************************************)
(* Real: finite formal sums and the IEEE special values.                   *)
(***************************************************************************)
NaN == [k |-> "nan", v |-> {}]
PInf == [k |-> "pinf", v |-> {}]
NInf == [k |-> "ninf", v |-> {}]
Fin(v) == [k |-> "fin", v |-> v]
Zero == Fin({})

Term(c, e, i, j, l) == [c |-> c, e |-> e, mu |-> i, kB |-> j, amu |-> l]
\* the rational number n/d as a Real
Num(n, d) == IF n = 0 THEN Zero ELSE Fin({Term(Q(n, d), Q(0, 1), 0, 0, 0)})

IsNaN(a) == a.k = "nan"
IsInf(a) == a.k \in {"pinf", "ninf"}
IsFinite(a) == a.k = "fin"
IsZero(a) == a.k = "fin" /\ a.v = {}
IsMono(a) == a.k = "fin" /\ Cardinality(a.v) <= 1
TermOf(a) == CHOOSE t \in a.v : TRUE
UnitOf(t) == <<t.e, t.mu, t.kB, t.amu>>
Inf(s) == IF s > 0 THEN PInf ELSE NInf

\* sign of an infinity or of a finite value with at most one term
Sign(a) ==
  CASE a.k = "pinf" -> 1
    [] a.k = "ninf" -> -1
    [] a.k = "fin" /\ a.v = {} -> 0
    [] a.k = "fin" /\ Cardinality(a.v) = 1 -> QSign(TermOf(a).c)

RNeg(a) ==
  CASE a.k = "nan" -> NaN
    [] a.k = "pinf" -> NInf
    [] a.k = "ninf" -> PInf
    [] a.k = "fin" -> Fin({[t EXCEPT !.c = QNeg(t.c)] : t \in a.v})

\* coefficient of the unit un in the formal sum v
Coef(v, un) ==
  IF \E t \in v : UnitOf(t) = un
  THEN (CHOOSE t \in v : UnitOf(t) = un).c
  ELSE Q(0, 1)

PolyAdd(x, y) ==
  LET units == {UnitOf(t) : t \in x \cup y}
      sum(un) == QAdd(Coef(x, un), Coef(y, un))
  IN  {Term(sum(un), un[1], un[2], un[3], un[4]) :
         un \in {z \in units : sum(z).n # 0}}

RAdd(a, b) ==
  CASE IsNaN(a) \/ IsNaN(b) -> NaN
    [] IsInf(a) /\ IsInf(b) -> IF a.k = b.k THEN a ELSE NaN
    [] IsInf(a) /\ IsFinite(b) -> a
    [] IsFinite(a) /\ IsInf(b) -> b
    [] IsFinite(a) /\ IsFinite(b) -> Fin(PolyAdd(a.v, b.v))

RSub(a, b) == RAdd(a, RNeg(b))

RMul(a, b) ==
  CASE IsNaN(a) \/ IsNaN(b) -> NaN
    [] IsInf(a) \/ IsInf(b) ->
         IF IsZero(a) \/ IsZero(b) THEN NaN ELSE Inf(Sign(a) * Sign(b))
    [] IsFinite(a) /\ IsFinite(b) ->
         IF IsZero(a) \/ IsZero(b) THEN Zero
         ELSE LET s == TermOf(a)
                  t == TermOf(b)
              IN  Fin({Term(QMul(s.c, t.c), QAdd(s.e, t.e), s.mu + t.mu,
                            s.kB + t.kB, s.amu + t.amu)})

\* IEEE division (x/0 is an infinity for x # 0, and 0/0 is NaN)
RDiv(a, b) ==
  CASE IsNaN(a) \/ IsNaN(b) -> NaN
    [] IsInf(a) ->
         IF IsInf(b) THEN NaN
         ELSE Inf(Sign(a) * (IF IsZero(b) THEN 1 ELSE Sign(b)))
    [] IsFinite(a) /\ IsInf(b) -> Zero
    [] IsFinite(a) /\ IsFinite(b) ->
         IF IsZero(b) THEN (IF IsZero(a) THEN NaN ELSE Inf(Sign(a)))
         ELSE IF IsZero(a) THEN Zero
         ELSE LET s == TermOf(a)
                  t == TermOf(b)
              IN  Fin({Term(QDiv(s.c, t.c), QAdd(s.e, QNeg(t.e)), s.mu - t.mu,
                            s.kB - t.kB, s.amu - t.amu)})

\* log10 of the magnitude of a one-term value free of mu, kB and amu whose
\* coefficient is a power of ten
LogMag(t) ==
  IF t.mu = 0 /\ t.kB = 0 /\ t.amu = 0
  THEN QAdd(t.e, Q(Log10Q(Q(Abs(t.c.n), t.c.d)), 1))
  ELSE CHOOSE q \in {} : TRUE

\* a < b, false when either is NaN
RLess(a, b) ==
  CASE IsNaN(a) \/ IsNaN(b) -> FALSE
    [] a.k = "pinf" \/ b.k = "ninf" -> FALSE
    [] a.k = "ninf" \/ b.k = "pinf" -> TRUE
    [] IsFinite(a) /\ IsFinite(b) ->
         LET diff == RSub(b, a)
         IN  IF IsMono(diff) THEN Sign(diff) > 0
             ELSE IF Sign(a) # Sign(b) THEN Sign(a) < Sign(b)
             ELSE IF Sign(a) > 0
                  THEN QLess(LogMag(TermOf(a)), LogMag(TermOf(b)))
                  ELSE QLess(LogMag(TermOf(b)), LogMag(TermOf(a)))

RGreater(a, b) == RLess(b, a)
RGeq(a, b) == ~IsNaN(a) /\ ~IsNaN(b) /\ ~RLess(a, b)
RLeq(a, b) == RGeq(b, a)

\* std::log10
Log10(a) ==
  CASE a.k = "nan" -> NaN
    [] a.k = "pinf" -> PInf
    [] a.k = "ninf" -> NaN
    [] a.k = "fin" ->
         IF IsZero(a) THEN NInf
         ELSE IF Sign(a) < 0 THEN NaN
         ELSE LET l == LogMag(TermOf(a)) IN Num(l.n, l.d)

\* std::pow(10.0, a) for a rational a
Pow10(a) ==
  CASE a.k = "nan" -> NaN
    [] a.k = "pinf" -> PInf
    [] a.k = "ninf" -> Zero
    [] a.k = "fin" ->
         IF IsZero(a) THEN Num(1, 1)
         ELSE LET t == TermOf(a)
              IN  IF t.e.n = 0 /\ t.mu = 0 /\ t.kB = 0 /\ t.amu = 0
                  THEN Fin({Term(Q(1, 1), t.c, 0, 0, 0)})
                  ELSE CHOOSE x \in {} : TRUE

(***************************************************************************)
(* TempToLambda: the piecewise-linear cooling curve.                       *)
(***************************************************************************)
Segment1(log10T) == Num(-24, 1)

Segment2Falling(log10T) ==
  RAdd(Num(-24, 1),
       RMul(RSub(Num(-41, 2), Num(24, 1)), RSub(log10T, Num(4, 1))))

Segment2(log10T) ==
  RAdd(Num(-24, 1),
       RMul(RAdd(Num(-41, 2), Num(24, 1)), RSub(log10T, Num(4, 1))))

Segment3WrongSpan(log10T) ==
  RAdd(Num(-41, 2),
       RDiv(RMul(RAdd(Num(-45, 2), Num(41, 2)), RSub(log10T, Num(5, 1))),
            RSub(Num(15, 2), Num(4, 1))))

Segment3(log10T) ==
  RAdd(Num(-41, 2),
       RDiv(RMul(RAdd(Num(-45, 2), Num(41, 2)), RSub(log10T, Num(5, 1))),
            RSub(Num(15, 2), Num(5, 1))))

Segment4WrongAnchor(log10T) ==
  RAdd(Num(-22, 1),
       RDiv(RMul(RAdd(Num(-22, 1), Num(45, 2)), RSub(log10T, Num(15, 2))),
            RSub(Num(9, 1), Num(15, 2))))

Segment4(log10T) ==
  RAdd(Num(-45, 2),
       RDiv(RMul(RAdd(Num(-22, 1), Num(45, 2)), RSub(log10T, Num(15, 2))),
            RSub(Num(9, 1), Num(15, 2))))

Segment5(log10T) ==
  RAdd(Num(-22, 1), RDiv(RSub(log10T, Num(9, 1)), Num(3, 1)))

TempToLambda(log10T) ==
  IF RLess(log10T, Num(4, 1)) THEN Segment1(log10T)
  ELSE IF RGeq(log10T, Num(4, 1)) /\ RLess(log10T, Num(5, 1))
       THEN Segment2(log10T)
  ELSE IF RGeq(log10T, Num(5, 1)) /\ RLess(log10T, Num(15, 2))
       THEN Segment3(log10T)
  ELSE IF RGeq(log10T, Num(15, 2)) /\ RLess(log10T, Num(9, 1))
       THEN Segment4(log10T)
  ELSE Segment5(log10T)

(***************************************************************************)
(* Physical constants and the mesh block.                                  *)
(***************************************************************************)
mu == Fin({Term(Q(1, 1), Q(0, 1), 1, 0, 0)})
kB == Fin({Term(Q(1, 1), Q(0, 1), 0, 1, 0)})
amu == Fin({Term(Q(1, 1), Q(0, 1), 0, 0, 1)})
temp_goal == Num(1, 10)

\* cells per block along x1 (owned)
NX == 2

\* index bounds of a block: ghost zones along i only (one-dimensional mesh)
is == 1
ie == is + NX - 1
js == 0
je == js
ks == 0
ke == ks

\* every cell of a block's arrays, ghost zones included
Cells == {<<k, j, i>> : k \in ks..ke, j \in js..je, i \in 0..(ie + is)}
Owned(c) ==
  /\ ks <= c[1] /\ c[1] <= ke
  /\ js <= c[2] /\ c[2] <= je
  /\ is <= c[3] /\ c[3] <= ie

\* the owned cells in the order of the k-j-i loop nest
LoopCellsAll ==
  [n \in 1..Cardinality(Cells) |-> <<ks, js, n - 1>>]

LoopCells ==
  LET ni == ie - is + 1
      nj == je - js + 1
      nk == ke - ks + 1
  IN  [n \in 1..(nk * nj * ni) |->
         <<ks + ((n - 1) \div (nj * ni)),
           js + (((n - 1) \div ni) % nj),
           is + ((n - 1) % ni)>>]

(***************************************************************************)
(* CoolingSource: the body of the loop for one cell, and the loop.         *)
(***************************************************************************)
Temperature(prim, c) ==
  RDiv(RMul(RMul(RDiv(prim[c].IPR, prim[c].IDN), mu), amu), kB)

AboveGoalOrEqual(temp) == RGeq(temp, temp_goal)

AlwaysCool(temp) == TRUE

AboveGoal(temp) == RGreater(temp, temp_goal)

DecrementLinear(dt, rho, Lambda) ==
  RMul(RDiv(RDiv(RMul(dt, rho), amu), amu), Lambda)

Decrement(dt, rho, Lambda) ==
  RMul(RDiv(RDiv(RMul(RMul(dt, rho), rho), amu), amu), Lambda)

CellUpdateNeighbour(cons, prim, dt, c) ==
  LET temp == Temperature(prim, c)
      log10T == Log10(temp)
      log10Lambda == TempToLambda(log10T)
      Lambda == Pow10(log10Lambda)
      left == <<c[1], c[2], c[3] - 1>>
  IN  IF AboveGoal(temp)
      THEN [cons EXCEPT ![c].IEN =
              RSub(cons[left].IEN, Decrement(dt, prim[c].IDN, Lambda))]
      ELSE cons

CellUpdate(cons, prim, dt, c) ==
  LET temp == Temperature(prim, c)
      log10T == Log10(temp)
      log10Lambda == TempToLambda(log10T)
      Lambda == Pow10(log10Lambda)
  IN  IF AboveGoal(temp)
      THEN [cons EXCEPT ![c].IEN =
              RSub(cons[c].IEN, Decrement(dt, prim[c].IDN, Lambda))]
      ELSE cons

RECURSIVE CoolingLoop(_, _, _, _)
CoolingLoop(cons, prim, dt, n) ==
  IF n > Len(LoopCells) THEN cons
  ELSE CoolingLoop(CellUpdate(cons, prim, dt, LoopCells[n]), prim, dt, n + 1)

(***************************************************************************)
(* MeshBlock::ProblemGenerator: the body for one cell, and the loop.       *)
(***************************************************************************)
InitialEnergyOld(rho, T, gm1) == RDiv(RMul(rho, T), gm1)

InitialEnergy(rho, T, gm1) ==
  RDiv(RDiv(RDiv(RMul(RMul(rho, kB), T), gm1), mu), amu)

GeneratorCell(cons, c, rho, T, gm1) ==
  LET hydro == [cons EXCEPT ![c].IDN = rho,
                            ![c].IM1 = Zero,
                            ![c].IM2 = Zero,
                            ![c].IM3 = Zero]
  IN  IF build.NON_BAROTROPIC_EOS
      THEN [hydro EXCEPT ![c].IEN = InitialEnergy(rho, T, gm1)]
      ELSE hydro

RECURSIVE GeneratorLoop(_, _, _, _, _)
GeneratorLoop(cons, rho, T, gm1, n) ==
  IF n > Len(LoopCells) THEN cons
  ELSE GeneratorLoop(GeneratorCell(cons, LoopCells[n], rho, T, gm1),
                     rho, T, gm1, n + 1)

(***************************************************************************)
(* Inputs.  The host hands CoolingSource arbitrary arrays; they are drawn  *)
(* from the rotations of the sequences below.  A pressure is given as      *)
(* rho * T * kB / (mu * amu), so that the temperature CoolingSource        *)
(* derives from it is T.                                                   *)
(***************************************************************************)
TenTo(n, d) == Fin({Term(Q(1, 1), Q(n, d), 0, 0, 0)})
GasConstant == RDiv(RDiv(kB, mu), amu)
Gas(rho, T) == [IDN |-> rho, IPR |-> RMul(RMul(rho, T), GasConstant)]

PrimSeq ==
  << Gas(Num(1, 1), TenTo(9, 2)),
     Gas(Num(1, 1), TenTo(-1, 1)),
     Gas(Num(2, 1), TenTo(25, 4)),
     [IDN |-> Zero, IPR |-> GasConstant],
     [IDN |-> Num(1, 1), IPR |-> Zero],
     Gas(Num(1, 1), TenTo(-2, 1)),
     Gas(Num(1, 1), Num(-1, 1)),
     Gas(Num(-1, 1), TenTo(5, 1)),
     [IDN |-> Zero, IPR |-> Zero],
     Gas(Num(-1, 1), Num(-1, 1)),
     [IDN |-> Num(-1, 1), IPR |-> Zero],
     [IDN |-> Zero, IPR |-> RNeg(GasConstant)],
     Gas(Num(2, 1), TenTo(10, 1)),
     Gas(Num(1, 1), TenTo(3, 1)),
     Gas(Num(3, 1), TenTo(8, 1)) >>

ConsSeq ==
  << [IDN |-> Num(1, 1), IM1 |-> Zero, IM2 |-> Zero, IM3 |-> Zero,
      IEN |-> RMul(Num(3, 2), RMul(TenTo(6, 1), GasConstant))],
     [IDN |-> Num(2, 1), IM1 |-> Num(1, 1), IM2 |-> Zero, IM3 |-> Num(-1, 2),
      IEN |-> Num(5, 1)],
     [IDN |-> Num(1, 2), IM1 |-> Zero, IM2 |-> Num(3, 1), IM3 |-> Zero,
      IEN |-> Zero] >>

DtValues == {Zero, Num(1, 2), Num(2, 1)}
RhoValues == {Num(1, 1), Num(2, 1)}
TValues == {TenTo(6, 1), Num(100, 1)}
GammaValues == {Num(5, 3), Num(7, 5)}
\* what the arrays hold before the problem generator writes them
FillValues == {Zero, Num(7, 1)}

PrimArray(off) ==
  [c \in Cells |-> PrimSeq[((c[3] + off) % Len(PrimSeq)) + 1]]
ConsArray(off) ==
  [c \in Cells |-> ConsSeq[((c[3] + off) % Len(ConsSeq)) + 1]]

NoCall ==
  [op |-> "none", dt |-> Zero, rho |-> Zero, T |-> Zero, gamma |-> Zero,
   u0 |-> <<>>, w0 |-> <<>>]
NoCurve == [a |-> Zero, b |-> Zero, la |-> Zero, lb |-> Zero, done |-> FALSE]
NoPar == [u |-> <<>>, w |-> <<>>, u0 |-> <<>>, dt |-> Zero, todo |-> {}]

(***************************************************************************)
(* The program: setup, initial state, then the host's stages.              *)
(***************************************************************************)
Init ==
  /\ pc = "boot"
  /\ build \in [FFT : BOOLEAN, SELF_GRAVITY_ENABLED : BOOLEAN,
                NON_BAROTROPIC_EOS : BOOLEAN]
  /\ mesh = [turb_flag |-> 0, four_pi_G |-> 0, grav_eps |-> 0,
             gravity_set |-> FALSE, UserSourceTerm |-> "none"]
  /\ \E f \in FillValues :
       /\ u = [c \in Cells |->
                 [IDN |-> f, IM1 |-> f, IM2 |-> f, IM3 |-> f, IEN |-> f]]
       /\ w = [c \in Cells |-> [IDN |-> f, IPR |-> f]]
  /\ call = NoCall
  /\ curve = NoCurve
  /\ par = NoPar

FatalAlways(turb_flag) == ~build.FFT

\* the guard of the fatal branch: turb_flag != 0 in a build without FFT
TurbulenceFatal(turb_flag) == turb_flag # 0 /\ ~build.FFT

\* Mesh::InitUserMeshData; the parameters it reads are present in the input
\* (grav_eps is optional: 0 stands for its default)
InitUserMeshData ==
  /\ pc = "boot"
  /\ \E four_pi_G \in {1}, eps \in {0, 1}, turb_flag \in 0..3 :
       LET gravity ==
             IF build.SELF_GRAVITY_ENABLED
             THEN [mesh EXCEPT !.four_pi_G = four_pi_G, !.grav_eps = eps,
                               !.gravity_set = TRUE]
             ELSE mesh
           turb == [gravity EXCEPT !.turb_flag = turb_flag]
       IN  IF TurbulenceFatal(turb_flag)
           THEN /\ mesh' = turb
                /\ pc' = "fatal"
           ELSE /\ mesh' = [turb EXCEPT !.UserSourceTerm = "CoolingSource"]
                /\ pc' = "setup"
  /\ call' = [NoCall EXCEPT !.op = "InitUserMeshData"]
  /\ UNCHANGED <<build, u, w, curve, par>>

\* MeshBlock::ProblemGenerator
ProblemGenerator ==
  /\ pc = "setup"
  /\ \E rho \in RhoValues, T \in TValues, gamma \in GammaValues :
       LET gm1 == RSub(gamma, Num(1, 1))
       IN  /\ u' = GeneratorLoop(u, rho, T, gm1, 1)
           /\ call' = [NoCall EXCEPT !.op = "ProblemGenerator", !.rho = rho,
                                     !.T = T, !.gamma = gamma, !.u0 = u,
                                     !.w0 = w]
  /\ pc' = "ready"
  /\ UNCHANGED <<build, mesh, w, curve, par>>

\* the host's integrator between two source-term calls: the flux update and
\* the conversion to primitive variables leave arbitrary arrays (builds with
\* an energy equation only: the arrays hold no energy otherwise)
HostStage ==
  /\ pc \in {"ready", "cooled"}
  /\ build.NON_BAROTROPIC_EOS
  /\ \E off \in 0..(Len(PrimSeq) - 1), offc \in 0..(Len(ConsSeq) - 1) :
       /\ w' = PrimArray(off)
       /\ u' = ConsArray(offc)
  /\ pc' = "stage"
  /\ call' = [NoCall EXCEPT !.op = "HostStage"]
  /\ UNCHANGED <<build, mesh, curve, par>>

\* CoolingSource, called by the host as the enrolled source function
CoolingSource ==
  /\ pc = "stage"
  /\ mesh.UserSourceTerm = "CoolingSource"
  /\ \E dt \in DtValues :
       /\ u' = CoolingLoop(u, w, dt, 1)
       /\ call' = [NoCall EXCEPT !.op = "CoolingSource", !.dt = dt,
                                 !.u0 = u, !.w0 = w]
  /\ pc' = "cooled"
  /\ UNCHANGED <<build, mesh, w, curve, par>>

Next == InitUserMeshData \/ ProblemGenerator \/ HostStage \/ CoolingSource

Spec == Init /\ [][Next]_vars

(***************************************************************************)
(* The cooling curve alone: TempToLambda applied to two inputs.            *)
(***************************************************************************)
\* the grid of inputs: multiples of 1/GridDen up to MaxLog10T
GridDen == 4
MaxLog10T == 13

CurveInputs ==
  {Num(n, GridDen) : n \in 0..(MaxLog10T * GridDen)}
    \cup {Num(-2, 1), Num(4, 1), Num(5, 1), Num(15, 2), Num(9, 1),
          Num(25, 4), Num(12, 1), NInf, PInf, NaN}

InitCurve ==
  /\ pc = "curve"
  /\ build = [FFT |-> FALSE, SELF_GRAVITY_ENABLED |-> FALSE,
              NON_BAROTROPIC_EOS |-> TRUE]
  /\ mesh = [turb_flag |-> 0, four_pi_G |-> 0, grav_eps |-> 0,
             gravity_set |-> FALSE, UserSourceTerm |-> "none"]
  /\ u = <<>>
  /\ w = <<>>
  /\ call = NoCall
  /\ \E a \in CurveInputs, b \in CurveInputs :
       curve = [NoCurve EXCEPT !.a = a, !.b = b]
  /\ par = NoPar

CurveCall ==
  /\ pc = "curve"
  /\ ~curve.done
  /\ curve' = [curve EXCEPT !.la = TempToLambda(curve.a),
                            !.lb = TempToLambda(curve.b),
                            !.done = TRUE]
  /\ UNCHANGED <<pc, build, mesh, u, w, call, par>>

SpecCurve == InitCurve /\ [][CurveCall]_vars

(***************************************************************************)
(* One sub-step's cooling update with the cells of all blocks updated in   *)
(* any order by the workers; a block belongs to one worker.                *)
(***************************************************************************)
NBlocks == 2
NWorkers == 2
Blocks == 1..NBlocks
Owner(b) == ((b - 1) % NWorkers) + 1

InitPar ==
  /\ pc = "par"
  /\ build = [FFT |-> FALSE, SELF_GRAVITY_ENABLED |-> FALSE,
              NON_BAROTROPIC_EOS |-> TRUE]
  /\ mesh = [turb_flag |-> 0, four_pi_G |-> 0, grav_eps |-> 0,
             gravity_set |-> FALSE, UserSourceTerm |-> "CoolingSource"]
  /\ u = <<>>
  /\ w = <<>>
  /\ call = NoCall
  /\ curve = NoCurve
  /\ \E off \in 0..(Len(PrimSeq) - 1), offc \in 0..(Len(ConsSeq) - 1),
        dt \in DtValues \ {Zero} :
       LET cons == [b \in Blocks |-> ConsArray(offc + b)]
       IN  par = [u |-> cons,
                  w |-> [b \in Blocks |-> PrimArray(off + 2 * b)],
                  u0 |-> cons,
                  dt |-> dt,
                  todo |-> {<<b, c>> : b \in Blocks,
                                       c \in {x \in Cells : Owned(x)}}]

\* worker wk runs the loop body for one pending cell of one of its blocks
WorkerCell(wk) ==
  /\ pc = "par"
  /\ \E bc \in par.todo :
       /\ Owner(bc[1]) = wk
       /\ par' = [par EXCEPT
                    !.u[bc[1]] = CellUpdate(par.u[bc[1]], par.w[bc[1]],
                                            par.dt, bc[2]),
                    !.todo = par.todo \ {bc}]
  /\ UNCHANGED <<pc, build, mesh, u, w, call, curve>>

NextPar == \E wk \in 1..NWorkers : WorkerCell(wk)

SpecPar == InitPar /\ [][NextPar]_vars

(***************************************************************************)
(* Properties of the cooling curve (checked under SpecCurve).              *)
(***************************************************************************)
\* the five-segment table of the specification
TableValue(x) ==
  CASE RLess(x, Num(4, 1)) -> Num(-24, 1)
    [] RGeq(x, Num(4, 1)) /\ RLess(x, Num(5, 1)) ->
         RAdd(Num(-24, 1), RMul(Num(7, 2), RSub(x, Num(4, 1))))
    [] RGeq(x, Num(5, 1)) /\ RLess(x, Num(15, 2)) ->
         RSub(Num(-41, 2), RMul(Num(4, 5), RSub(x, Num(5, 1))))
    [] RGeq(x, Num(15, 2)) /\ RLess(x, Num(9, 1)) ->
         RAdd(Num(-45, 2), RMul(Num(1, 3), RSub(x, Num(15, 2))))
    [] RGeq(x, Num(9, 1)) ->
         RAdd(Num(-22, 1), RDiv(RSub(x, Num(9, 1)), Num(3, 1)))

\* C1: for every input log10T (any real, -inf or +inf) TempToLambda returns
\* the value of the five-segment table; TempToLambda(6.25) = -21.5 and
\* TempToLambda(12.0) = -21.0.
C1_Table ==
  curve.done =>
    /\ ~IsNaN(curve.a) => curve.la = TableValue(curve.a)
    /\ ~IsNaN(curve.b) => curve.lb = TableValue(curve.b)
    /\ curve.a = Num(25, 4) => curve.la = Num(-43, 2)
    /\ curve.b = Num(12, 1) => curve.lb = Num(-21, 1)

C1_Witness ==
  /\ curve.done
  /\ curve.a = Num(25, 4) /\ curve.la = Num(-43, 2)
  /\ curve.b = Num(12, 1) /\ curve.lb = Num(-21, 1)

\* C2: the curve is continuous at every breakpoint: at 4.0, 5.0, 7.5 and 9.0
\* the formula of the segment ending there and the formula of the segment
\* starting there both give -24.0, -20.5, -22.5 and -22.0, and TempToLambda
\* returns that value.
C2_Continuity ==
  curve.done =>
    /\ curve.a = Num(4, 1) =>
         /\ curve.la = Num(-24, 1)
         /\ Segment1(curve.a) = Num(-24, 1)
         /\ Segment2(curve.a) = Num(-24, 1)
    /\ curve.a = Num(5, 1) =>
         /\ curve.la = Num(-41, 2)
         /\ Segment2(curve.a) = Num(-41, 2)
         /\ Segment3(curve.a) = Num(-41, 2)
    /\ curve.a = Num(15, 2) =>
         /\ curve.la = Num(-45, 2)
         /\ Segment3(curve.a) = Num(-45, 2)
         /\ Segment4(curve.a) = Num(-45, 2)
    /\ curve.a = Num(9, 1) =>
         /\ curve.la = Num(-22, 1)
         /\ Segment4(curve.a) = Num(-22, 1)
         /\ Segment5(curve.a) = Num(-22, 1)

C2_Witness ==
  /\ curve.done
  /\ curve.a = Num(15, 2) /\ curve.la = Num(-45, 2)
  /\ curve.b = Num(9, 1) /\ curve.lb = Num(-22, 1)

\* a <= b, both inside [lo, hi)
Within(lo, a, b, hi) == RGeq(a, lo) /\ RLeq(a, b) /\ RLess(b, hi)

\* the slope-1/3 law beyond 9.0
SlopeBeyond9 ==
  (/\ IsFinite(curve.a) /\ IsFinite(curve.b)
   /\ RGeq(curve.a, Num(9, 1)) /\ RLeq(curve.a, curve.b))
    => RSub(curve.lb, curve.la) = RDiv(RSub(curve.b, curve.a), Num(3, 1))

\* C3 as stated: within [4.0, 9.0) the curve is non-decreasing, and for
\* 9.0 <= a <= b, TempToLambda(b) - TempToLambda(a) = (b - a)/3.
C3_Original ==
  curve.done =>
    /\ Within(Num(4, 1), curve.a, curve.b, Num(9, 1))
         => RLeq(curve.la, curve.lb)
    /\ SlopeBeyond9

\* C3 (amended): the curve is non-decreasing within [4.0, 5.0] and within
\* [7.5, 9.0), and non-increasing within [5.0, 7.5]; for 9.0 <= a <= b,
\* TempToLambda(b) - TempToLambda(a) = (b - a)/3.
C3_Monotone ==
  curve.done =>
    /\ (RGeq(curve.a, Num(4, 1)) /\ RLeq(curve.a, curve.b)
          /\ RLeq(curve.b, Num(5, 1)))
         => RLeq(curve.la, curve.lb)
    /\ (RGeq(curve.a, Num(5, 1)) /\ RLeq(curve.a, curve.b)
          /\ RLeq(curve.b, Num(15, 2)))
         => RGeq(curve.la, curve.lb)
    /\ Within(Num(15, 2), curve.a, curve.b, Num(9, 1))
         => RLeq(curve.la, curve.lb)
    /\ SlopeBeyond9

C3_Witness ==
  /\ curve.done
  /\ curve.a = Num(5, 1) /\ curve.b = Num(25, 4)
  /\ RLess(curve.lb, curve.la)

(***************************************************************************)
(* Properties of CoolingSource (checked under Spec).                       *)
(***************************************************************************)
OwnedCells == {c \in Cells : Owned(c)}
Cooled == call.op = "CoolingSource"

\* T = p/rho * mu*amu/k_B
CellT(c) ==
  RDiv(RMul(RDiv(call.w0[c].IPR, call.w0[c].IDN), RMul(mu, amu)), kB)
CellLambda(c) == Pow10(TempToLambda(Log10(CellT(c))))
\* dt * rho^2 / amu^2 * Lambda
Loss(dt, rho, Lambda) ==
  RMul(RDiv(RMul(dt, RMul(rho, rho)), RMul(amu, amu)), Lambda)
CellLoss(c) == Loss(call.dt, call.w0[c].IDN, CellLambda(c))
\* the energy decrement of cell c had the call been made with time step dt
DecrementAt(dt, c) ==
  RSub(call.u0[c].IEN, CellUpdate(call.u0, call.w0, dt, c)[c].IEN)

\* C4: a cell of the owned range with T <= temp_goal keeps its conserved
\* energy exactly, for every dt.
C4_NoOpBelowFloor ==
  Cooled =>
    \A c \in OwnedCells :
      RLeq(CellT(c), temp_goal) => u[c].IEN = call.u0[c].IEN

C4_Witness ==
  /\ Cooled
  /\ RGreater(call.dt, Zero)
  /\ \E c \in OwnedCells :
       /\ CellT(c) = TenTo(-1, 1)
       /\ RLeq(CellT(c), temp_goal)
       /\ u[c].IEN = call.u0[c].IEN
  /\ \E c \in OwnedCells : u[c].IEN # call.u0[c].IEN

\* the three parts of C5 for one cell
C5_Equation(c) == u[c].IEN = RSub(call.u0[c].IEN, CellLoss(c))
C5_Decrease(c) ==
  (RGreater(CellLambda(c), Zero) /\ RGreater(call.dt, Zero))
    => RLess(u[c].IEN, call.u0[c].IEN)
C5_Doubling(c) ==
  DecrementAt(RMul(Num(2, 1), call.dt), c)
    = RMul(Num(2, 1), RSub(call.u0[c].IEN, u[c].IEN))

\* C5 as stated: for an owned cell with T > temp_goal the energy after the
\* call is the energy before minus dt * rho^2 / amu^2 * Lambda, with Lambda
\* from the primitive state; it is strictly less than before whenever
\* Lambda > 0 and dt > 0; doubling dt doubles the decrement.
C5_Original ==
  Cooled =>
    \A c \in OwnedCells :
      RGreater(CellT(c), temp_goal) =>
        C5_Equation(c) /\ C5_Decrease(c) /\ C5_Doubling(c)

\* C5 (amended): as C5, with the strict decrease claimed only for a finite
\* temperature (non-zero density): with zero density and positive pressure
\* T and Lambda are +inf and the energy becomes NaN.
C5_ExplicitLoss ==
  Cooled =>
    \A c \in OwnedCells :
      RGreater(CellT(c), temp_goal) =>
        /\ C5_Equation(c)
        /\ IsFinite(CellT(c)) => C5_Decrease(c)
        /\ C5_Doubling(c)

C5_Witness ==
  /\ Cooled
  /\ RGreater(call.dt, Zero)
  /\ \E c \in OwnedCells :
       /\ RGreater(CellT(c), temp_goal)
       /\ IsFinite(CellT(c))
       /\ call.w0[c].IDN = Num(2, 1)
       /\ RLess(u[c].IEN, call.u0[c].IEN)

\* the new energy of a cell from its own density, pressure, old energy and dt
OwnCellEnergy(rho, p, energy, dt) ==
  LET T == RDiv(RMul(RDiv(p, rho), RMul(mu, amu)), kB)
  IN  IF RGreater(T, temp_goal)
      THEN RSub(energy, Loss(dt, rho, Pow10(TempToLambda(Log10(T)))))
      ELSE energy

\* C7: a call of CoolingSource changes only the energy of cells inside the
\* owned range: density and momenta of every cell, every primitive value and
\* the energy of the cells outside the owned range are unchanged, and the new
\* energy of a cell is a function of that cell's primitive density and
\* pressure, its old energy and dt alone.
C7_Frame ==
  Cooled =>
    /\ w = call.w0
    /\ \A c \in Cells :
         /\ u[c].IDN = call.u0[c].IDN
         /\ u[c].IM1 = call.u0[c].IM1
         /\ u[c].IM2 = call.u0[c].IM2
         /\ u[c].IM3 = call.u0[c].IM3
         /\ ~Owned(c) => u[c].IEN = call.u0[c].IEN
         /\ Owned(c) =>
              u[c].IEN = OwnCellEnergy(call.w0[c].IDN, call.w0[c].IPR,
                                       call.u0[c].IEN, call.dt)

C7_Witness ==
  /\ Cooled
  /\ RGreater(call.dt, Zero)
  /\ \E c \in OwnedCells : u[c].IEN # call.u0[c].IEN
  /\ \E c \in Cells \ OwnedCells :
       /\ RGreater(CellT(c), temp_goal)
       /\ IsFinite(CellT(c))
       /\ u[c].IEN = call.u0[c].IEN

\* density or pressure <= 0
Degenerate(c) ==
  RLeq(call.w0[c].IDN, Zero) \/ RLeq(call.w0[c].IPR, Zero)

\* C10 as stated: for a cell whose primitive density or pressure is <= 0 a
\* non-finite value propagates into the energy update: the cell's energy
\* after the call is non-finite.
C10_Original ==
  Cooled =>
    \A c \in OwnedCells : Degenerate(c) => ~IsFinite(u[c].IEN)

\* C10 (amended): degeneracy is not guarded, but for a cell with density or
\* pressure <= 0 a non-finite value reaches the energy only when T = +inf
\* (zero density, non-zero pressure of the sign of the zero): the energy
\* becomes NaN.  With density and pressure both negative T is positive and
\* finite and the cell gets the ordinary finite update.  In every other
\* case T is <= 0, -inf or NaN, the test T > temp_goal is false and the
\* energy is unchanged.
C10_Degenerate ==
  Cooled =>
    \A c \in OwnedCells :
      Degenerate(c) =>
        CASE CellT(c) = PInf -> IsNaN(u[c].IEN)
          [] IsFinite(CellT(c)) /\ RGreater(CellT(c), Zero) ->
               /\ RLess(call.w0[c].IDN, Zero) /\ RLess(call.w0[c].IPR, Zero)
               /\ IsFinite(u[c].IEN)
               /\ u[c].IEN = OwnCellEnergy(call.w0[c].IDN, call.w0[c].IPR,
                                           call.u0[c].IEN, call.dt)
          [] OTHER -> u[c].IEN = call.u0[c].IEN

C10_Witness ==
  /\ Cooled
  /\ \E c \in OwnedCells :
       /\ IsZero(call.w0[c].IDN) /\ RGreater(call.w0[c].IPR, Zero)
       /\ IsNaN(u[c].IEN)
  /\ \E c \in OwnedCells :
       /\ call.w0[c].IDN = Num(1, 1) /\ IsZero(call.w0[c].IPR)
       /\ u[c].IEN = call.u0[c].IEN
  /\ RGreater(call.dt, Zero)

(***************************************************************************)
(* Properties of the setup and of the problem generator (under Spec).      *)
(***************************************************************************)
\* C6: InitUserMeshData raises the fatal error exactly when turb_flag != 0
\* and FFT is absent, and CoolingSource is enrolled exactly in the runs that
\* do not fail.
C6_FatalIffTurbWithoutFFT ==
  pc # "boot" =>
    /\ (pc = "fatal") <=> (mesh.turb_flag # 0 /\ ~build.FFT)
    /\ (mesh.UserSourceTerm = "CoolingSource") <=> (pc # "fatal")

C6_Witness ==
  /\ pc = "fatal"
  /\ mesh.turb_flag = 3
  /\ ~build.FFT
  /\ mesh.UserSourceTerm = "none"

\* rho * k_B * T / (gamma - 1) / mu / amu
UniformEnergy(rho, T, gamma) ==
  RDiv(RMul(RMul(rho, kB), T), RMul(RMul(RSub(gamma, Num(1, 1)), mu), amu))

\* C9: after ProblemGenerator every owned cell has density rho, momenta 0 and,
\* with a non-barotropic equation of state, energy rho*k_B*T/(gamma-1)/mu/amu;
\* otherwise the energy is not written; the owned cells are all alike.
C9_UniformInitial ==
  call.op = "ProblemGenerator" =>
    /\ \A c \in OwnedCells :
         /\ u[c].IDN = call.rho
         /\ u[c].IM1 = Zero /\ u[c].IM2 = Zero /\ u[c].IM3 = Zero
         /\ u[c].IEN = IF build.NON_BAROTROPIC_EOS
                       THEN UniformEnergy(call.rho, call.T, call.gamma)
                       ELSE call.u0[c].IEN
    /\ \A c, d \in OwnedCells : u[c] = u[d]

C9_Witness ==
  /\ call.op = "ProblemGenerator"
  /\ build.NON_BAROTROPIC_EOS
  /\ call.rho = Num(2, 1) /\ call.gamma = Num(5, 3)
  /\ \A c \in OwnedCells :
       /\ call.u0[c].IM1 = Num(7, 1) /\ u[c].IM1 = Zero
       /\ u[c].IEN = UniformEnergy(call.rho, call.T, call.gamma)
       /\ u[c].IEN # call.u0[c].IEN

(***************************************************************************)
(* Independence of the schedule (checked under SpecPar).                   *)
(***************************************************************************)
\* C8: when the per-cell updates of all cells of all blocks have run once
\* each, in any order, the conserved state is that of the sequential k-j-i
\* loop over each block.
C8_ScheduleIndependent ==
  (pc = "par" /\ par.todo = {}) =>
    \A b \in Blocks :
      par.u[b] = CoolingLoop(par.u0[b], par.w[b], par.dt, 1)

C8_Witness ==
  /\ pc = "par"
  /\ par.todo = {}
  /\ \A b \in Blocks : \E c \in OwnedCells : par.u[b][c].IEN # par.u0[b][c].IEN

====
